---- MODULE Spec2Model ----
(***************************************************************************)
(* A model of the aiombus M-Bus decoder: the DIB/VIB extension-chain       *)
(* parsers (telegrams/blocks.py), the frame parsers (telegrams/frames.py), *)
(* the integer and date/time decoders (types.py) and the record assembly   *)
(* over one shared iterator (tests/lartech).                               *)
(*                                                                         *)
(* Every decoder is an operator computed the way the code computes it; the *)
(* actions apply a decoder to an input drawn from a bounded set and store  *)
(* the outcome.  A raised exception is an outcome whose status is the name *)
(* of the exception class.                                                 *)
(***************************************************************************)
EXTENDS Integers, Sequences, FiniteSets, TLC

VARIABLES op, input, it, result, pc

vars == <<op, input, it, result, pc>>

(***************************************************************************)
(* Bounds of the model.                                                    *)
(***************************************************************************)
\* longest input of the exhaustively enumerated block inputs
MaxSeqLen == 3
\* longest run of extension bytes in the enumerated chain inputs
MaxChain == 12
\* longest tail of bytes after the run of extension bytes
MaxTail == 2
\* widest input of the signed integer decoder (TLC integers are 32 bits wide)
MaxWidth == 3
\* widest input of the unsigned integer decoder (its values are not negative,
\* so it has one bit less than the signed decoder to stay within 32 bits)
MaxUnsignedWidth == 2
\* longest run of bytes after the fifth byte of a short frame
MaxExtra == 1
\* longest enumerated record after its first byte
MaxRecLen == 4

(***************************************************************************)
(* Python's integer bit operators on non-negative integers.                *)
(***************************************************************************)
RECURSIVE BitAnd(_, _)
BitAnd(a, b) ==
    IF a = 0 \/ b = 0 THEN 0
    ELSE (a % 2) * (b % 2) + 2 * BitAnd(a \div 2, b \div 2)

RECURSIVE BitOr(_, _)
BitOr(a, b) ==
    IF a = 0 THEN b
    ELSE IF b = 0 THEN a
    ELSE (IF (a % 2) + (b % 2) > 0 THEN 1 ELSE 0) + 2 * BitOr(a \div 2, b \div 2)

RECURSIVE BitXor(_, _)
BitXor(a, b) ==
    IF a = 0 THEN b
    ELSE IF b = 0 THEN a
    ELSE (((a % 2) + (b % 2)) % 2) + 2 * BitXor(a \div 2, b \div 2)

RECURSIVE Pow2(_)
Pow2(n) == IF n = 0 THEN 1 ELSE 2 * Pow2(n - 1)

ShiftR(a, n) == a \div Pow2(n)

ShiftL(a, n) == a * Pow2(n)

(***************************************************************************)
(* validators.py and telegrams/base.py                                     *)
(***************************************************************************)
\* validate_byte that takes 256 for a byte
validate_byte_UpTo256(nbr) ==
    IF nbr >= 0 /\ nbr <= 256
    THEN [status |-> "ok", value |-> nbr]
    ELSE [status |-> "MBusValidationError"]

\* bytes([nbr]) raises ValueError exactly outside range(0, 256)
validate_byte(nbr) ==
    IF nbr >= 0 /\ nbr < 256
    THEN [status |-> "ok", value |-> nbr]
    ELSE [status |-> "MBusValidationError"]

\* TelegramField(byte)
TelegramField(byte) ==
    LET v == validate_byte(byte)
    IN  IF v.status = "ok" THEN [status |-> "ok", byte |-> v.value] ELSE v

(***************************************************************************)
(* telegrams/fields/data_info.py                                           *)
(***************************************************************************)
DATA_FIELD_MASK == 15
FUNCTION_FIELD_MASK == 48
STORAGE_NUMBER_LSB_MASK == 64
EXTENSION_BIT_MASK == 128

\* DataInformationField(byte): the validated byte and its sub-fields
DataInformationField(byte) ==
    LET f == TelegramField(byte)
    IN  IF f.status # "ok" THEN f
        ELSE [status |-> "ok",
              kind |-> "DIF",
              byte |-> byte,
              data |-> BitAnd(byte, DATA_FIELD_MASK),
              function |-> ShiftR(BitAnd(byte, FUNCTION_FIELD_MASK), 4),
              storage_number_lsb |->
                  IF BitAnd(byte, STORAGE_NUMBER_LSB_MASK) # 0 THEN 1 ELSE 0,
              extension |->
                  IF BitAnd(byte, EXTENSION_BIT_MASK) # 0 THEN 1 ELSE 0]

\* DataInformationFieldExtension whose tariff is not shifted down
DataInformationFieldExtension_TariffUnshifted(byte) ==
    LET f == TelegramField(byte)
    IN  IF f.status # "ok" THEN f
        ELSE [status |-> "ok",
              kind |-> "DIFE",
              byte |-> byte,
              storage_number |-> BitAnd(byte, DATA_FIELD_MASK),
              tariff |-> BitAnd(byte, FUNCTION_FIELD_MASK),
              device_unit |->
                  IF BitAnd(byte, STORAGE_NUMBER_LSB_MASK) # 0 THEN 1 ELSE 0,
              extension |->
                  IF BitAnd(byte, EXTENSION_BIT_MASK) # 0 THEN 1 ELSE 0]

\* DataInformationFieldExtension(byte)
DataInformationFieldExtension(byte) ==
    LET f == TelegramField(byte)
    IN  IF f.status # "ok" THEN f
        ELSE [status |-> "ok",
              kind |-> "DIFE",
              byte |-> byte,
              storage_number |-> BitAnd(byte, DATA_FIELD_MASK),
              tariff |-> ShiftR(BitAnd(byte, FUNCTION_FIELD_MASK), 4),
              device_unit |->
                  IF BitAnd(byte, STORAGE_NUMBER_LSB_MASK) # 0 THEN 1 ELSE 0,
              extension |->
                  IF BitAnd(byte, EXTENSION_BIT_MASK) # 0 THEN 1 ELSE 0]

\* ValueInformationField(byte): code in bits 0..6, extension in bit 7
ValueInformationField(byte) ==
    LET f == TelegramField(byte)
    IN  IF f.status # "ok" THEN f
        ELSE [status |-> "ok",
              kind |-> "VIF",
              byte |-> byte,
              code |-> BitAnd(byte, 127),
              extension |->
                  IF BitAnd(byte, EXTENSION_BIT_MASK) # 0 THEN 1 ELSE 0]

\* ValueInformationFieldExtension(byte)
ValueInformationFieldExtension(byte) ==
    LET f == TelegramField(byte)
    IN  IF f.status # "ok" THEN f
        ELSE [status |-> "ok",
              kind |-> "VIFE",
              byte |-> byte,
              code |-> BitAnd(byte, 127),
              extension |->
                  IF BitAnd(byte, EXTENSION_BIT_MASK) # 0 THEN 1 ELSE 0]

(***************************************************************************)
(* telegrams/blocks.py                                                     *)
(***************************************************************************)
MAX_DIFE_FRAMES == 10
MAX_VIFE_FRAMES == 10

\* The outcome of a parse step: status, the fields collected so far and the
\* number of items taken from the iterator by next().
Outcome(status, blocks, consumed) ==
    [status |-> status, blocks |-> blocks, consumed |-> consumed]

\* The while loop of DataInformationBlock._parse_blocks; i items of s have
\* been taken from the iterator, pos is the loop counter.
RECURSIVE DIBLoop(_, _, _, _)
DIBLoop(s, i, blocks, pos) ==
    IF i >= Len(s)
    THEN Outcome("StopIteration", blocks, i)
    ELSE LET byte == s[i + 1]
             dife == DataInformationFieldExtension(byte)
         IN  IF byte = 0
             THEN Outcome("ok", blocks, i + 1)
             ELSE IF dife.status # "ok"
             THEN Outcome(dife.status, blocks, i + 1)
             ELSE IF dife.extension = 0
             THEN Outcome("ok", Append(blocks, dife), i + 1)
             ELSE IF pos + 1 = MAX_DIFE_FRAMES + 1
             THEN Outcome("MBusError", Append(blocks, dife), i + 1)
             ELSE DIBLoop(s, i + 1, Append(blocks, dife), pos + 1)

\* DataInformationBlock._parse_blocks(ibytes) on the iterator content s
DIB_parse_blocks(s) ==
    IF Len(s) = 0
    THEN Outcome("StopIteration", <<>>, 0)
    ELSE LET dif == DataInformationField(s[1])
         IN  IF dif.status # "ok"
             THEN Outcome(dif.status, <<>>, 1)
             ELSE IF dif.extension = 0
             THEN Outcome("ok", <<dif>>, 1)
             ELSE DIBLoop(s, 1, <<dif>>, 1)

\* a constructor that empties the iterator when the parsing fails
DataInformationBlock_Drains(s) ==
    LET r == DIB_parse_blocks(s)
    IN  IF r.status # "ok"
        THEN Outcome(IF r.status = "StopIteration" THEN "MBusError"
                     ELSE r.status, <<>>, Len(s))
        ELSE r

\* DataInformationBlock.__init__: StopIteration becomes MBusError
DataInformationBlock(s) ==
    LET r == DIB_parse_blocks(s)
    IN  IF r.status = "StopIteration"
        THEN Outcome("MBusError", <<>>, r.consumed)
        ELSE IF r.status # "ok"
        THEN Outcome(r.status, <<>>, r.consumed)
        ELSE r

\* The while loop of ValueInformationBlock._parse_blocks
RECURSIVE VIBLoop(_, _, _, _)
VIBLoop(s, i, blocks, pos) ==
    IF i >= Len(s)
    THEN Outcome("StopIteration", blocks, i)
    ELSE LET byte == s[i + 1]
             vife == ValueInformationFieldExtension(byte)
         IN  IF byte = 0
             THEN Outcome("ok", blocks, i + 1)
             ELSE IF vife.status # "ok"
             THEN Outcome(vife.status, blocks, i + 1)
             ELSE IF vife.extension = 0
             THEN Outcome("ok", Append(blocks, vife), i + 1)
             ELSE IF pos + 1 = MAX_VIFE_FRAMES + 1
             THEN Outcome("MBusError", Append(blocks, vife), i + 1)
             ELSE VIBLoop(s, i + 1, Append(blocks, vife), pos + 1)

\* a _parse_blocks that returns after the VIF whatever its extension bit
VIB_parse_blocks_NoChain(s) ==
    IF Len(s) = 0
    THEN Outcome("StopIteration", <<>>, 0)
    ELSE LET vif == ValueInformationField(s[1])
         IN  IF vif.status # "ok"
             THEN Outcome(vif.status, <<>>, 1)
             ELSE Outcome("ok", <<vif>>, 1)

\* ValueInformationBlock._parse_blocks(ibytes) on the iterator content s
VIB_parse_blocks(s) ==
    IF Len(s) = 0
    THEN Outcome("StopIteration", <<>>, 0)
    ELSE LET vif == ValueInformationField(s[1])
         IN  IF vif.status # "ok"
             THEN Outcome(vif.status, <<>>, 1)
             ELSE IF vif.extension = 0
             THEN Outcome("ok", <<vif>>, 1)
             ELSE VIBLoop(s, 1, <<vif>>, 1)

\* ValueInformationBlock.__init__: StopIteration becomes MBusError
ValueInformationBlock(s) ==
    LET r == VIB_parse_blocks(s)
    IN  IF r.status = "StopIteration"
        THEN Outcome("MBusError", <<>>, r.consumed)
        ELSE IF r.status # "ok"
        THEN Outcome(r.status, <<>>, r.consumed)
        ELSE r

\* what is left in a shared iterator after n items were taken from it
Rest(s, n) == SubSeq(s, n + 1, Len(s))

(***************************************************************************)
(* telegrams/fields.py and telegrams/frames.py                             *)
(***************************************************************************)
ACK_BYTE == 229
FRAME_STOP_BYTE == 22
\* the start byte of the control frame taken for that of the short frame
SHORT_FRAME_START_BYTE_Control == 104

SHORT_FRAME_START_BYTE == 16

AF_UNCONFIGURED_SLAVE_BYTE == 0
AF_SLAVE_MIN_RANGE_VALUE_BYTE == 1
AF_SLAVE_MAX_RANGE_VALUE_BYTE == 250
AF_BROADCAST_ALL_SLAVES_REPLY_BYTE == 254
AF_BROADCAST_NO_SLAVE_REPLIES_BYTE == 255
AF_NETWORK_LAYER_BYTE == 253

\* the methods of AddressField, self being the constructed object
is_unconfigured_slave(self) == self.a_field = AF_UNCONFIGURED_SLAVE_BYTE

\* is_configured_slave that takes the reserved addresses too
is_configured_slave_WithReserved(self) ==
    /\ AF_SLAVE_MIN_RANGE_VALUE_BYTE <= self.a_field
    /\ self.a_field <= AF_SLAVE_MAX_RANGE_VALUE_BYTE + 2

is_configured_slave(self) ==
    /\ AF_SLAVE_MIN_RANGE_VALUE_BYTE <= self.a_field
    /\ self.a_field <= AF_SLAVE_MAX_RANGE_VALUE_BYTE

is_slave(self) ==
    /\ AF_UNCONFIGURED_SLAVE_BYTE <= self.a_field
    /\ self.a_field <= AF_SLAVE_MAX_RANGE_VALUE_BYTE

is_broadcast_all_reply(self) ==
    self.a_field = AF_BROADCAST_ALL_SLAVES_REPLY_BYTE

is_broadcast_no_replies(self) ==
    self.a_field = AF_BROADCAST_NO_SLAVE_REPLIES_BYTE

is_broadcast(self) ==
    is_broadcast_all_reply(self) \/ is_broadcast_no_replies(self)

is_network_layer(self) == self.a_field = AF_NETWORK_LAYER_BYTE

\* what the seven methods return for the object
AddressField_methods(self) ==
    [status |-> "ok",
     a_field |-> self.a_field,
     is_unconfigured_slave |-> is_unconfigured_slave(self),
     is_configured_slave |-> is_configured_slave(self),
     is_slave |-> is_slave(self),
     is_broadcast_all_reply |-> is_broadcast_all_reply(self),
     is_broadcast_no_replies |-> is_broadcast_no_replies(self),
     is_broadcast |-> is_broadcast(self),
     is_network_layer |-> is_network_layer(self)]

\* SingleFrame.from_byte that takes any byte for an ACK
SingleFrame_from_byte_NoCheck(byte) ==
    [status |-> "ok", frame |-> <<TelegramField(ACK_BYTE)>>]

\* SingleFrame.from_byte(byte): MBusDecodeError unless byte is ACK_BYTE,
\* else SingleFrame(), whose frame is [Field(ACK_BYTE)]
SingleFrame_from_byte(byte) ==
    IF byte # ACK_BYTE THEN [status |-> "MBusDecodeError"]
    ELSE [status |-> "ok", frame |-> <<TelegramField(ACK_BYTE)>>]

\* AddressField(byte): validates the byte
AddressField(byte) ==
    LET v == validate_byte(byte)
    IN  IF v.status = "ok" THEN [status |-> "ok", a_field |-> v.value] ELSE v

\* ControlField(byte): _parse_direction does nothing, the byte is not kept
ControlField(byte) == [status |-> "ok", direction |-> "None"]

\* the outcome of a frame parse: status and the list of the frame's parts
FrameOutcome(status, frame) == [status |-> status, frame |-> frame]

\* ShortFrame._parse_frame(it) then the building of self._frame; next() on
\* the exhausted iterator raises StopIteration
ShortFrame_parse_frame(s) ==
    IF Len(s) < 1 THEN FrameOutcome("StopIteration", <<>>)
    ELSE LET start == TelegramField(s[1])
    IN  IF start.status # "ok" THEN FrameOutcome(start.status, <<>>)
        ELSE IF start.byte # SHORT_FRAME_START_BYTE
        THEN FrameOutcome("MBusDecodeError", <<>>)
        ELSE IF Len(s) < 2 THEN FrameOutcome("StopIteration", <<>>)
        ELSE LET c_field == ControlField(s[2])
    IN  IF Len(s) < 3 THEN FrameOutcome("StopIteration", <<>>)
        ELSE LET a_field == AddressField(s[3])
    IN  IF a_field.status # "ok" THEN FrameOutcome(a_field.status, <<>>)
        ELSE IF Len(s) < 4 THEN FrameOutcome("StopIteration", <<>>)
        ELSE LET check_sum == s[4]
    IN  IF Len(s) < 5 THEN FrameOutcome("StopIteration", <<>>)
        ELSE LET stop == TelegramField(s[5])
    IN  IF stop.status # "ok" THEN FrameOutcome(stop.status, <<>>)
        ELSE IF stop.byte # FRAME_STOP_BYTE
        THEN FrameOutcome("MBusDecodeError", <<>>)
        ELSE FrameOutcome("ok", <<start.byte, s[2], a_field.a_field,
                                  check_sum, stop.byte>>)

\* ShortFrame.__init__ without the except clause: StopIteration escapes
ShortFrame_NoExcept(frame) == ShortFrame_parse_frame(frame)

\* ShortFrame.__init__: StopIteration becomes MBusDecodeError
ShortFrame(frame) ==
    LET r == ShortFrame_parse_frame(frame)
    IN  IF r.status = "StopIteration"
        THEN FrameOutcome("MBusDecodeError", <<>>)
        ELSE r

(***************************************************************************)
(* types.py: the integer types                                             *)
(***************************************************************************)
\* a byte = 8 bits, a nibble = 4 bits
BYTE == 8
NIBBLE == 4

\* reversed(ibytes)
Reversed(s) == [j \in 1..Len(s) |-> s[Len(s) + 1 - j]]

\* the for loop of parse_binary_integer over _bytes[k..]
RECURSIVE BinaryLoop(_, _, _, _)
BinaryLoop(bytes, k, value, neg_sign) ==
    IF k > Len(bytes) THEN value
    ELSE LET shifted == ShiftL(value, BYTE)
         IN  BinaryLoop(bytes, k + 1,
                        IF neg_sign # 0
                        THEN shifted + BitXor(bytes[k], 255)
                        ELSE shifted + bytes[k],
                        neg_sign)

\* parse_binary_integer that negates without the final - 1
parse_binary_integer_OnesComplement(ibytes) ==
    LET bytes == Reversed(ibytes)
    IN  IF Len(bytes) = 0 THEN [status |-> "MBusError"]
        ELSE LET neg_sign == BitAnd(bytes[1], 128)
                 value == BinaryLoop(bytes, 1, 0, neg_sign)
             IN  [status |-> "ok",
                  value |-> IF neg_sign # 0 THEN -value ELSE value]

\* parse_binary_integer(ibytes)
parse_binary_integer(ibytes) ==
    LET bytes == Reversed(ibytes)
    IN  IF Len(bytes) = 0 THEN [status |-> "MBusError"]
        ELSE LET neg_sign == BitAnd(bytes[1], 128)
                 value == BinaryLoop(bytes, 1, 0, neg_sign)
             IN  [status |-> "ok",
                  value |-> IF neg_sign # 0 THEN (-value) - 1 ELSE value]

\* int.from_bytes(_bytes, byteorder=BIG_ENDIAN, signed=False)
RECURSIVE FromBytesBig(_, _, _)
FromBytesBig(bytes, k, value) ==
    IF k > Len(bytes) THEN value
    ELSE FromBytesBig(bytes, k + 1, value * 256 + bytes[k])

\* parse_unsigned_integer reading the bytes in the order of the signed decoder
parse_unsigned_integer_Reversed(ibytes) ==
    IF Len(ibytes) = 0 THEN [status |-> "MBusError"]
    ELSE [status |-> "ok", value |-> FromBytesBig(Reversed(ibytes), 1, 0)]

\* parse_unsigned_integer(ibytes)
parse_unsigned_integer(ibytes) ==
    IF Len(ibytes) = 0 THEN [status |-> "MBusError"]
    ELSE [status |-> "ok", value |-> FromBytesBig(ibytes, 1, 0)]

\* parse_boolean(ibytes): bool(parse_unsigned_integer(ibytes))
parse_boolean(ibytes) ==
    LET r == parse_unsigned_integer(ibytes)
    IN  IF r.status # "ok" THEN r
        ELSE [status |-> "ok", value |-> r.value # 0]

(***************************************************************************)
(* types.py: date and date-time                                            *)
(***************************************************************************)
YEAR_MASK_LSB == 224
YEAR_MASK_MSB == 240
MONTH_MASK == 15
DAY_MASK == 31
HOUR_MASK == 31
MINUTE_MASK == 63
SECOND_MASK == 63

\* get_year with the century changing one year early
get_year_Century80(lsp, msp) ==
    LET year_lsp == BitAnd(lsp, YEAR_MASK_LSB)
        year_msp == BitAnd(msp, YEAR_MASK_MSB)
        year == ShiftR(BitOr(year_msp, ShiftR(year_lsp, NIBBLE)), 1)
    IN  IF year < 80 THEN 2000 + year ELSE 1900 + year

get_year(lsp, msp) ==
    LET year_lsp == BitAnd(lsp, YEAR_MASK_LSB)
        year_msp == BitAnd(msp, YEAR_MASK_MSB)
        year == ShiftR(BitOr(year_msp, ShiftR(year_lsp, NIBBLE)), 1)
    IN  IF year < 81 THEN 2000 + year ELSE 1900 + year

\* get_month that keeps three bits of the month
get_month_ThreeBits(byte) == BitAnd(byte, 7)

get_month(byte) == BitAnd(byte, MONTH_MASK)

get_day(byte) == BitAnd(byte, DAY_MASK)

get_hour(byte) == BitAnd(byte, HOUR_MASK)

get_minute(byte) == BitAnd(byte, MINUTE_MASK)

get_second(byte) == BitAnd(byte, SECOND_MASK)

\* the calendar rules of Python's datetime.date
IsLeap(year) == year % 4 = 0 /\ (year % 100 # 0 \/ year % 400 = 0)

DaysInMonth(year, month) ==
    IF month = 2 THEN (IF IsLeap(year) THEN 29 ELSE 28)
    ELSE IF month \in {4, 6, 9, 11} THEN 30 ELSE 31

\* datetime.date without the length of the month: any day 1..31 passes
PyDate_NoMonthLength(year, month, day) ==
    IF /\ year >= 1 /\ year <= 9999
       /\ month >= 1 /\ month <= 12
       /\ day >= 1 /\ day <= 31
    THEN [status |-> "ok", year |-> year, month |-> month, day |-> day]
    ELSE [status |-> "ValueError"]

\* datetime.date(year, month, day): ValueError on an invalid date
PyDate(year, month, day) ==
    IF /\ year >= 1 /\ year <= 9999
       /\ month >= 1 /\ month <= 12
       /\ day >= 1 /\ day <= DaysInMonth(year, month)
    THEN [status |-> "ok", year |-> year, month |-> month, day |-> day]
    ELSE [status |-> "ValueError"]

\* datetime.datetime(year, month, day, hour, minute, second)
PyDateTime(year, month, day, hour, minute, second) ==
    IF /\ PyDate(year, month, day).status = "ok"
       /\ hour >= 0 /\ hour <= 23
       /\ minute >= 0 /\ minute <= 59
       /\ second >= 0 /\ second <= 59
    THEN [status |-> "ok", year |-> year, month |-> month, day |-> day,
          hour |-> hour, minute |-> minute, second |-> second]
    ELSE [status |-> "ValueError"]

\* get_date(ibytes); frame[1] of a shorter frame raises IndexError
get_date(frame) ==
    IF Len(frame) < 2 THEN [status |-> "IndexError"]
    ELSE LET dt0 == frame[1]
             dt1 == frame[2]
         IN  PyDate(get_year(dt0, dt1), get_month(dt1), get_day(dt0))

\* Date.from_bytearray(frame): get_date then Date(year, month, day)
Date_from_bytearray(frame) ==
    LET date_ == get_date(frame)
    IN  IF date_.status # "ok" THEN date_
        ELSE PyDate(date_.year, date_.month, date_.day)

\* get_datetime that never reads the byte of seconds
get_datetime_NoSeconds(frame) ==
    IF Len(frame) < 4 THEN [status |-> "IndexError"]
    ELSE LET dt0 == frame[1]
             dt1 == frame[2]
             dt2 == frame[3]
             dt3 == frame[4]
         IN  PyDateTime(get_year(dt2, dt3), get_month(dt3), get_day(dt2),
                        get_hour(dt1), get_minute(dt0), get_second(0))

\* get_datetime(ibytes); frame[3] of a shorter frame raises IndexError
get_datetime(frame) ==
    IF Len(frame) < 4 THEN [status |-> "IndexError"]
    ELSE LET dt0 == frame[1]
             dt1 == frame[2]
             dt2 == frame[3]
             dt3 == frame[4]
             dt4 == IF Len(frame) = 5 THEN frame[5] ELSE 0
         IN  PyDateTime(get_year(dt2, dt3), get_month(dt3), get_day(dt2),
                        get_hour(dt1), get_minute(dt0), get_second(dt4))

\* DateTime.from_bytearray(frame)
DateTime_from_bytearray(frame) ==
    LET datetime_ == get_datetime(frame)
    IN  IF datetime_.status # "ok" THEN datetime_
        ELSE PyDateTime(datetime_.year, datetime_.month, datetime_.day,
                        datetime_.hour, datetime_.minute, datetime_.second)

\* datetime.time(hour, minute, second): ValueError on an invalid time
PyTime(hour, minute, second) ==
    IF /\ hour >= 0 /\ hour <= 23
       /\ minute >= 0 /\ minute <= 59
       /\ second >= 0 /\ second <= 59
    THEN [status |-> "ok", hour |-> hour, minute |-> minute,
          second |-> second]
    ELSE [status |-> "ValueError"]

\* get_time that never reads a byte of seconds
get_time_NoSeconds(frame) ==
    IF Len(frame) < 2 THEN [status |-> "IndexError"]
    ELSE LET dt0 == frame[1]
             dt1 == frame[2]
         IN  PyTime(get_hour(dt1), get_minute(dt0), get_second(0))

\* get_time(ibytes); frame[1] of a shorter frame raises IndexError; the
\* byte of seconds is the third of 3 bytes or the fifth of 5 bytes
get_time(frame) ==
    IF Len(frame) < 2 THEN [status |-> "IndexError"]
    ELSE LET dt0 == frame[1]
             dt1 == frame[2]
             sec_byte == IF Len(frame) = 5 THEN frame[5]
                         ELSE IF Len(frame) = 3 THEN frame[3]
                         ELSE 0
         IN  PyTime(get_hour(dt1), get_minute(dt0), get_second(sec_byte))

\* parse_time(frame): two bytes are taken, then up to three more; sec_byte
\* is the last one read of the third and the fifth (None without a third),
\* and is appended when it is truthy
parse_time(frame) ==
    IF Len(frame) < 2 THEN [status |-> "StopIteration"]
    ELSE LET lst == <<frame[1], frame[2]>>
             sec_byte == IF Len(frame) >= 5 THEN frame[5]
                         ELSE IF Len(frame) >= 3 THEN frame[3]
                         ELSE 0
         IN  IF sec_byte # 0 THEN get_time(lst \o <<sec_byte>>)
             ELSE get_time(lst)

\* Time.from_time(time_): Time(hour, minute, second)
Time_from_time(time_) ==
    IF time_.status # "ok" THEN time_
    ELSE PyTime(time_.hour, time_.minute, time_.second)

\* Time.from_bytearray(frame)
Time_from_bytearray(frame) == Time_from_time(get_time(frame))

\* a hexadecimal string is the sequence of its digits, 0..15 each
RECURSIVE bytearray_fromhex(_)
\* bytearray.fromhex(hex): two digits make a byte, the high digit first
bytearray_fromhex(hex) ==
    IF Len(hex) = 0 THEN [status |-> "ok", value |-> <<>>]
    ELSE IF Len(hex) = 1 THEN [status |-> "ValueError"]
    ELSE LET rest == bytearray_fromhex(SubSeq(hex, 3, Len(hex)))
         IN  IF rest.status # "ok" THEN rest
             ELSE [status |-> "ok",
                   value |-> <<16 * hex[1] + hex[2]>> \o rest.value]

\* Time.from_hexstring(hex)
Time_from_hexstring(hex) ==
    LET barr == bytearray_fromhex(hex)
    IN  IF barr.status # "ok" THEN [status |-> barr.status]
        ELSE Time_from_bytearray(barr.value)

\* Time.from_integers(it)
Time_from_integers(frame) == Time_from_time(parse_time(frame))

(***************************************************************************)
(* telegrams/codes/value_info.py                                           *)
(***************************************************************************)
RECURSIVE IntPower10(_)
IntPower10(n) == IF n = 0 THEN 1 ELSE 10 * IntPower10(n - 1)

\* 10 ** k: an int for k >= 0 and the float 1 / 10 ** (-k) for k < 0, kept
\* as a fraction
Power10(k) ==
    IF k >= 0 THEN [num |-> IntPower10(k), den |-> 1]
    ELSE [num |-> 1, den |-> IntPower10(0 - k)]

\* a & (~m) for a >= 0 and m >= 0: the bits of m are cleared in a
AndNot(a, m) == a - BitAnd(a, m)

\* check_coding(vif): TRUE when no MBusError is raised
check_coding(CMASK, EMASK, vif) ==
    LET byte == vif.byte
        code == AndNot(byte, EMASK)
    IN  BitAnd(code, 127) = CMASK

\* ValueInformationFieldCode.__init__(vif) of a class with CMASK and EMASK
ValueInformationFieldCode(CMASK, EMASK, vif) ==
    IF vif.kind # "VIF" THEN [status |-> "MBusError"]
    ELSE IF ~check_coding(CMASK, EMASK, vif) THEN [status |-> "MBusError"]
    ELSE [status |-> "ok"]

\* the object of a code class: its class, DESC, UNIT and multiplier
CodeObject(type, DESC, UNIT, range) ==
    [status |-> "ok", type |-> type, DESC |-> DESC, UNIT |-> UNIT,
     multiplier |-> range]

\* the value of multiplier while _range is None
NoRange == [none |-> TRUE]

EnergyWattHourVIFCode(vif) ==
    LET base == ValueInformationFieldCode(0, 7, vif)
        pwr == BitAnd(vif.byte, 7)
    IN  IF base.status # "ok" THEN base
        ELSE CodeObject("EnergyWattHourVIFCode", "energy", "Wh",
                        Power10(pwr - 3))

EnergyJouleVIFCode(vif) ==
    LET base == ValueInformationFieldCode(8, 7, vif)
        pwr == BitAnd(vif.byte, 7)
    IN  IF base.status # "ok" THEN base
        ELSE CodeObject("EnergyJouleVIFCode", "energy", "J", Power10(pwr))

VolumeMeterCubeVIFCode(vif) ==
    LET base == ValueInformationFieldCode(16, 7, vif)
        pwr == BitAnd(vif.byte, 7)
    IN  IF base.status # "ok" THEN base
        ELSE CodeObject("VolumeMeterCubeVIFCode", "volume", "m^3",
                        Power10(pwr - 6))

VolumeMassKilogramVIFCode(vif) ==
    LET base == ValueInformationFieldCode(24, 7, vif)
        pwr == BitAnd(vif.byte, 7)
    IN  IF base.status # "ok" THEN base
        ELSE CodeObject("VolumeMassKilogramVIFCode", "mass", "kg",
                        Power10(pwr - 3))

\* OnTimeVIFCode.__init__(vif), run by a class with the given name and
\* CMASK: `if unit == 3`, `if unit == 2`, then `if unit == 1 ... else`
OnTimeVIFCode_init(type, CMASK, vif) ==
    LET base == ValueInformationFieldCode(CMASK, 3, vif)
        unit == BitAnd(vif.byte, 3)
        UNIT3 == IF unit = 3 THEN "day" ELSE "None"
        UNIT2 == IF unit = 2 THEN "hour" ELSE UNIT3
        UNIT1 == IF unit = 1 THEN "minute" ELSE "second"
    IN  IF base.status # "ok" THEN base
        ELSE CodeObject(type, "on time", UNIT1, NoRange)

OnTimeVIFCode(vif) == OnTimeVIFCode_init("OnTimeVIFCode", 32, vif)

\* an OperatingTimeVIFCode whose CMASK lies in the row of the power
OperatingTimeVIFCode_PowerRow(vif) ==
    OnTimeVIFCode_init("OperatingTimeVIFCode", 40, vif)

OperatingTimeVIFCode(vif) ==
    OnTimeVIFCode_init("OperatingTimeVIFCode", 36, vif)

\* PowerWattVIFCode with the range 10 ** pwr
PowerWattVIFCode_NoOffset(vif) ==
    LET base == ValueInformationFieldCode(40, 7, vif)
        pwr == BitAnd(vif.byte, 7)
    IN  IF base.status # "ok" THEN base
        ELSE CodeObject("PowerWattVIFCode", "power", "W", Power10(pwr))

PowerWattVIFCode(vif) ==
    LET base == ValueInformationFieldCode(40, 7, vif)
        pwr == BitAnd(vif.byte, 7)
    IN  IF base.status # "ok" THEN base
        ELSE CodeObject("PowerWattVIFCode", "power", "W", Power10(pwr - 3))

\* the classes of the set VIF_CODE_TYPES
VIF_CODE_TYPES ==
    {"EnergyWattHourVIFCode", "EnergyJouleVIFCode", "VolumeMeterCubeVIFCode",
     "VolumeMassKilogramVIFCode", "OperatingTimeVIFCode", "PowerWattVIFCode"}

\* code_type(vif) for a class of VIF_CODE_TYPES
code_type_call(code_type, vif) ==
    CASE code_type = "EnergyWattHourVIFCode" -> EnergyWattHourVIFCode(vif)
      [] code_type = "EnergyJouleVIFCode" -> EnergyJouleVIFCode(vif)
      [] code_type = "VolumeMeterCubeVIFCode" -> VolumeMeterCubeVIFCode(vif)
      [] code_type = "VolumeMassKilogramVIFCode" ->
            VolumeMassKilogramVIFCode(vif)
      [] code_type = "OperatingTimeVIFCode" -> OperatingTimeVIFCode(vif)
      [] code_type = "PowerWattVIFCode" -> PowerWattVIFCode(vif)

\* get_vif_code without the try block: the first class of the iteration
\* returns its object or raises
get_vif_code_NoExcept(vif) ==
    {code_type_call(code_type, vif) : code_type \in VIF_CODE_TYPES}

\* get_vif_code(vif): the set of the results it can return. The classes
\* are iterated in the order of a set, which is not fixed: the first class
\* that is constructed without an exception is returned, None after all
\* have failed.
get_vif_code(vif) ==
    LET made == {code_type_call(code_type, vif) :
                    code_type \in VIF_CODE_TYPES}
        objects == {c \in made : c.status = "ok"}
    IN  IF objects = {} THEN {[status |-> "ok", type |-> "None"]}
        ELSE objects

(***************************************************************************)
(* blocks/dib.py: the fields with the keyword check_byte                   *)
(***************************************************************************)
\* a & mask for any integer a and 0 <= mask < 256: Python takes a negative a
\* in two's complement, whose low eight bits are those of a mod 256
PyAnd(a, mask) == BitAnd(a % 256, mask)

\* blocks.DataInformationField(byte, check_byte=...): the byte is validated
\* only when check_byte is true
blocks_DataInformationField(byte, check_byte) ==
    IF check_byte /\ validate_byte(byte).status # "ok"
    THEN [status |-> "MBusValidationError"]
    ELSE [status |-> "ok",
          kind |-> "DIF",
          byte |-> byte,
          data_field |-> PyAnd(byte, 15),
          function_field |-> ShiftR(PyAnd(byte, 48), 4),
          storage_number_lsb |-> IF PyAnd(byte, 64) # 0 THEN 1 ELSE 0,
          extension_bit |-> IF PyAnd(byte, 128) # 0 THEN 1 ELSE 0]

\* blocks.DataInformationFieldExtension(byte, check_byte=...)
blocks_DataInformationFieldExtension(byte, check_byte) ==
    IF check_byte /\ validate_byte(byte).status # "ok"
    THEN [status |-> "MBusValidationError"]
    ELSE [status |-> "ok",
          kind |-> "DIFE",
          byte |-> byte,
          storage_number |-> PyAnd(byte, 15),
          tariff |-> ShiftR(PyAnd(byte, 48), 4),
          device_unit |-> IF PyAnd(byte, 64) # 0 THEN 1 ELSE 0,
          extension_bit |-> IF PyAnd(byte, 128) # 0 THEN 1 ELSE 0]

(***************************************************************************)
(* Date and DateTime from integers, and the assembly of a record with a    *)
(* time point (tests/lartech/test_c_get_mbus_metering.py)                  *)
(***************************************************************************)
\* Date.from_integers(ints): bytearray(iter(ints)), then from_bytearray
Date_from_integers(ints) == Date_from_bytearray(ints)

\* parse_datetime(frame): four bytes are taken, StopIteration when one is
\* missing, then a fifth if there is one
parse_datetime(frame) ==
    IF Len(frame) < 4 THEN [status |-> "StopIteration"]
    ELSE get_datetime(SubSeq(frame, 1, IF Len(frame) >= 5 THEN 5 ELSE 4))

\* DateTime.from_integers(it)
DateTime_from_integers(frame) ==
    LET datetime_ == parse_datetime(frame)
    IN  IF datetime_.status # "ok" THEN datetime_
        ELSE PyDateTime(datetime_.year, datetime_.month, datetime_.day,
                        datetime_.hour, datetime_.minute, datetime_.second)

\* _get_time_point_class(byte): mask 0b0110_1100, then the last bit
get_time_point_class(byte) ==
    IF BitAnd(byte, 108) # 108 THEN "None"
    ELSE IF BitAnd(byte, 1) # 0 THEN "DateTime"
    ELSE "Date"

\* _get_electricity(byte): the name of the constant that is returned
get_electricity(byte) ==
    LET key == BitAnd(byte, 15)
        ext == BitAnd(byte, 128)
    IN  IF ext # 0
        THEN CASE key = 1 -> "ACTIVE_A_PLUS"
               [] key = 2 -> "ACTIVE_A_MINUS"
               [] key = 4 -> "REACTIVE_R_PLUS"
               [] key = 8 -> "REACTIVE_R_MINUS"
               [] key = 15 -> "ALL_QUADRANTS"
               [] OTHER -> "None"
        ELSE CASE key = 1 -> "TARIFF_0"
               [] key = 2 -> "TARIFF_1"
               [] key = 4 -> "TARIFF_2"
               [] key = 8 -> "TARIFF_2"
               [] key = 15 -> "ALL_TARIFFS"
               [] OTHER -> "None"

\* _parse_vib(vib) on the list of the VIFEs: nothing without a VIFE; after
\* a first VIFE 0xFF the second and the third are read, IndexError when
\* the list is shorter
parse_vib_time_point(vifes) ==
    IF Len(vifes) = 0
    THEN [status |-> "ok", unit_kind |-> "absent", tariff |-> "absent"]
    ELSE IF vifes[1].byte # 255
    THEN [status |-> "ok", unit_kind |-> "absent", tariff |-> "absent"]
    ELSE IF Len(vifes) < 3 THEN [status |-> "IndexError"]
    ELSE [status |-> "ok",
          unit_kind |-> get_electricity(vifes[2].byte),
          tariff |-> get_electricity(vifes[3].byte)]

\* _parse_data(vib, data): vifes[-1] raises IndexError without a VIFE, and
\* cls.from_integers raises AttributeError when cls is None
parse_data(vifes, data) ==
    IF Len(vifes) = 0 THEN [status |-> "IndexError"]
    ELSE LET cls == get_time_point_class(vifes[Len(vifes)].byte)
         IN  IF cls = "None" THEN [status |-> "AttributeError"]
             ELSE LET dto == IF cls = "Date" THEN Date_from_integers(data)
                             ELSE DateTime_from_integers(data)
                  IN  IF dto.status # "ok" THEN [status |-> dto.status]
                      ELSE [status |-> "ok", cls |-> cls, dto |-> dto]

\* c_get_mbus_metering(hex) of the test with the time point, on the bytes
\* of hex: the first byte, DIB(it), VIB(it), _parse_vib and _parse_data
c_get_mbus_metering_time_point(s) ==
    IF Len(s) = 0 THEN [status |-> "StopIteration"]
    ELSE
    LET dib == DataInformationBlock(Tail(s))
        after_dib == Rest(Tail(s), dib.consumed)
        vib == ValueInformationBlock(after_dib)
        data == Rest(after_dib, vib.consumed)
    IN  IF dib.status # "ok" THEN [status |-> dib.status]
        ELSE IF vib.status # "ok" THEN [status |-> vib.status]
        ELSE LET vifes == Tail(vib.blocks)
                 pv == parse_vib_time_point(vifes)
                 pd == parse_data(vifes, data)
             IN  IF pv.status # "ok" THEN pv
                 ELSE IF pd.status # "ok" THEN pd
                 ELSE [status |-> "ok",
                       medium |-> BitAnd(s[1], 15),
                       metering_type |->
                           IF ShiftR(BitAnd(s[1], 240), 4) = 2
                           THEN "simple" ELSE "other",
                       type |-> dib.blocks[1].data,
                       unit_kind |-> pv.unit_kind,
                       tariff |-> pv.tariff,
                       cls |-> pd.cls,
                       dto |-> pd.dto]

(***************************************************************************)
(* Inputs                                                                  *)
(***************************************************************************)
\* sequences over S of length 0..n
SeqsUpTo(S, n) == UNION {[1..k -> S] : k \in 0..n}

\* k copies of the byte e
Repeat(e, k) == [j \in 1..k |-> e]

\* bytes of the exhaustively enumerated block inputs: with and without the
\* extension bit, the zero byte, and the two nearest integers that are no byte
BlockBytes == {0, 4, 112, 128, 143, -1, 256}

\* bytes with the extension bit set, used for the long chains
ExtBytes == {128, 255}

\* bytes of the tail after a long chain
TailBytes == {0, 9, 137}

\* inputs given to DataInformationBlock and ValueInformationBlock
BlockInputs ==
    SeqsUpTo(BlockBytes, MaxSeqLen)
    \cup {Repeat(e, k) \o t :
            e \in ExtBytes, k \in 1..MaxChain, t \in SeqsUpTo(TailBytes, MaxTail)}

\* the bytes tried at each position of a short frame: the right value of the
\* position and wrong ones; 2 + 3 = 5 and (255 + 3) mod 256 = 2
StartBytes == {16, 104, 22}
CBytes == {2, 255}
ABytes == {3, 253}
ChkBytes == {5, 2, 4}
StopBytes == {22, 6, 16}
ExtraBytes == {22, 0}

\* five-byte frames
FiveByteFrames ==
    {<<b1, b2, b3, b4, b5>> :
        b1 \in StartBytes, b2 \in CBytes, b3 \in ABytes,
        b4 \in ChkBytes, b5 \in StopBytes}

\* inputs given to ShortFrame: five-byte frames, their proper prefixes and
\* five-byte frames followed by more bytes
ShortFrameInputs ==
    {SubSeq(f, 1, k) : f \in FiveByteFrames, k \in 0..5}
    \cup {f \o t : f \in FiveByteFrames, t \in SeqsUpTo(ExtraBytes, MaxExtra)}

\* bytes of the integer inputs: both signs, the extremes and their neighbours
IntBytes == {0, 1, 127, 128, 129, 255}

SignedInputs == SeqsUpTo(IntBytes, MaxWidth)

UnsignedInputs == SeqsUpTo(IntBytes, MaxUnsignedWidth)

\* the byte whose low bits are lo and whose high bits are hi * unit
Pack(hi, unit, lo) == hi * unit + lo

\* CP16 frames: day 0, 1, 28..31 with every value of the year's low bits;
\* month 0, 1, 2, 4, 12, 13, 15 with year nibbles on both sides of year 80/81
DateFrames ==
    {<<Pack(t, 32, d), Pack(h, 16, m)>> :
        t \in 0..7, d \in {0, 1, 28, 29, 30, 31},
        h \in {0, 1, 2, 5, 10, 15}, m \in {0, 1, 2, 4, 12, 13, 15}}

\* the frames of test_parse_date: 0A 25, 6A 28, 45 2C, 6A 25
TestDateFrames == {<<10, 37>>, <<106, 40>>, <<69, 44>>, <<106, 37>>}

\* inputs given to get_date and Date.from_bytearray
DateInputs == DateFrames \cup TestDateFrames \cup {<<>>, <<10>>}

\* CP32 frames with and without the byte of seconds
MinuteBytes == {0, 59, 60, 251}
HourBytes == {0, 23, 24, 247}
SecondBytes == {0, 15, 59, 60, 251}
DateTimeDates ==
    {<<Pack(t, 32, d), Pack(h, 16, m)>> :
        t \in {0, 7}, d \in {0, 1, 29, 31}, h \in {2, 10}, m \in {2, 12, 13}}

FourByteFrames ==
    {<<b0, b1>> \o d : b0 \in MinuteBytes, b1 \in HourBytes, d \in DateTimeDates}

\* the frames of test_parse_datetime
TestDateTimeFrames ==
    {<<30, 10, 10, 37, 15>>, <<30, 9, 106, 40, 0>>,
     <<30, 11, 69, 44, 55>>, <<59, 23, 106, 37, 59>>}

\* inputs given to get_datetime and DateTime.from_bytearray
DateTimeInputs ==
    FourByteFrames
    \cup {f \o <<b4>> : f \in FourByteFrames, b4 \in SecondBytes}
    \cup TestDateTimeFrames
    \cup {<<>>, <<30, 10, 106>>}

\* the frames of test_parse_time: 1E 0A, 1E 09 0F, 1E 0B 37, 3B 17 3B
TestTimeFrames == {<<30, 10>>, <<30, 9, 15>>, <<30, 11, 55>>, <<59, 23, 59>>}

\* the third and fourth bytes of a longer time frame
ThirdBytes == {0, 10, 59, 60}
FourthBytes == {0, 40}

\* frames of 2 to 5 bytes given to get_time and the Time constructors, and
\* two frames that are too short
TimeInputs ==
    LET two == {<<b0, b1>> : b0 \in MinuteBytes, b1 \in HourBytes}
        three == {f \o <<b2>> : f \in two, b2 \in SecondBytes \cup ThirdBytes}
        four == {f \o <<b2, b3>> : f \in two, b2 \in ThirdBytes,
                                   b3 \in FourthBytes}
        five == {f \o <<b4>> : f \in four, b4 \in SecondBytes}
    IN  two \cup three \cup four \cup five \cup TestTimeFrames
            \cup {<<>>, <<30>>}

RECURSIVE hex_of(_)
\* the hexadecimal string of a frame, as the tests write it: two digits for
\* each byte
hex_of(frame) ==
    IF frame = <<>> THEN <<>>
    ELSE <<frame[1] \div 16, frame[1] % 16>> \o hex_of(Tail(frame))

\* the integers given as a byte: every byte, and integers on both sides of
\* the range of a byte
ByteInputs == (-3 .. 258) \cup {-1000, 1000}

\* last VIFEs: four that match the selector 0b0110_1100 (two of a date,
\* two of a date-time) and three that do not
LastVifes == {108, 109, 110, 127, 45, 93, 1}

\* the value information blocks of the records with a time point: a VIF
\* alone, and a VIF with one, two and four VIFEs
TimePointVibs ==
    {<<41>>}
    \cup {<<169, v>> : v \in LastVifes}
    \cup {<<169, 255, v>> : v \in LastVifes}
    \cup {<<169, 255, 129, 128, v>> : v \in LastVifes}

\* payloads: a date-time of 4 and of 5 bytes, dates, a date with the day 0
\* and payloads that are too short
TimePointPayloads ==
    {<<30, 10, 106, 40>>, <<30, 10, 106, 40, 15>>, <<106, 40>>, <<64, 37>>,
     <<30, 10, 106>>, <<>>}

\* inputs given to c_get_mbus_metering of the test with the time point
TimePointInputs ==
    {<<34, d>> \o v \o pl :
        d \in {4, 2}, v \in TimePointVibs, pl \in TimePointPayloads}
    \cup {<<>>, <<34>>, <<34, 4>>}

\* the bytes of the enumerated records: a DIF/VIF without and with the
\* extension bit, the zero byte and a selector byte
RecBytes == {4, 132, 0, 109}

\* the records of test_c_get_mbus_metering that are accepted
TestRecords ==
    {<<34, 4, 169, 255, 129, 128, 109, 30, 10, 106, 40>>,
     <<34, 2, 131, 255, 129, 129, 108, 64, 37>>,
     <<39, 2, 147, 255, 128, 108, 106, 40>>,
     <<39, 2, 147, 255, 128, 108, 64, 37>>,
     <<36, 2, 173, 255, 128, 108, 64, 37>>,
     <<34, 132, 4, 169, 255, 129, 128, 109, 0, 0, 31, 64, 30, 10, 106, 40>>,
     <<36, 132, 132, 132, 130, 2, 172, 255, 128, 237, 221, 93,
       0, 0, 12, 114, 30, 15, 157, 34, 7, 109, 7, 18>>}

\* inputs given to c_get_mbus_metering: the byte of the medium, then a record
RecordInputs ==
    {<<34>> \o r : r \in SeqsUpTo(RecBytes, MaxRecLen)}
    \cup TestRecords
    \cup {<<34>> \o Repeat(130, 14) \o <<129, 4, 255>>}
    \cup {<<>>}

(***************************************************************************)
(* The state machine: one call of one decoder on one input.  op names the  *)
(* call that was made, input its argument, result its outcome and it what  *)
(* is left in the iterator that was handed to it.  The assembly of a       *)
(* record runs in steps over one iterator; pc is the step it has reached.  *)
(***************************************************************************)
Init ==
    /\ op = "init"
    /\ input = <<>>
    /\ it = <<>>
    /\ result = [status |-> "none"]
    /\ pc = "idle"

\* DIB(ibytes) called on a fresh iterator over s
BuildDIB ==
    /\ op = "init"
    /\ \E s \in BlockInputs :
        LET r == DataInformationBlock(s)
        IN  /\ op' = "DIB"
            /\ input' = s
            /\ result' = r
            /\ it' = Rest(s, r.consumed)
            /\ pc' = "idle"

\* VIB(ibytes) called on a fresh iterator over s
BuildVIB ==
    /\ op = "init"
    /\ \E s \in BlockInputs :
        LET r == ValueInformationBlock(s)
        IN  /\ op' = "VIB"
            /\ input' = s
            /\ result' = r
            /\ it' = Rest(s, r.consumed)
            /\ pc' = "idle"

\* ShortFrame(frame)
BuildShortFrame ==
    /\ op = "init"
    /\ \E s \in ShortFrameInputs :
        /\ op' = "ShortFrame"
        /\ input' = s
        /\ result' = ShortFrame(s)
        /\ it' = <<>>
        /\ pc' = "idle"

\* parse_binary_integer(ibytes)
ParseBinaryInteger ==
    /\ op = "init"
    /\ \E s \in SignedInputs :
        /\ op' = "parse_binary_integer"
        /\ input' = s
        /\ result' = parse_binary_integer(s)
        /\ it' = <<>>
        /\ pc' = "idle"

\* parse_unsigned_integer(ibytes)
ParseUnsignedInteger ==
    /\ op = "init"
    /\ \E s \in UnsignedInputs :
        /\ op' = "parse_unsigned_integer"
        /\ input' = s
        /\ result' = parse_unsigned_integer(s)
        /\ it' = <<>>
        /\ pc' = "idle"

\* get_date(ibytes)
GetDate ==
    /\ op = "init"
    /\ \E s \in DateInputs :
        /\ op' = "get_date"
        /\ input' = s
        /\ result' = get_date(s)
        /\ it' = <<>>
        /\ pc' = "idle"

\* Date.from_bytearray(frame)
DateFromBytearray ==
    /\ op = "init"
    /\ \E s \in DateInputs :
        /\ op' = "Date.from_bytearray"
        /\ input' = s
        /\ result' = Date_from_bytearray(s)
        /\ it' = <<>>
        /\ pc' = "idle"

\* get_datetime(ibytes)
GetDateTime ==
    /\ op = "init"
    /\ \E s \in DateTimeInputs :
        /\ op' = "get_datetime"
        /\ input' = s
        /\ result' = get_datetime(s)
        /\ it' = <<>>
        /\ pc' = "idle"

\* DateTime.from_bytearray(frame)
DateTimeFromBytearray ==
    /\ op = "init"
    /\ \E s \in DateTimeInputs :
        /\ op' = "DateTime.from_bytearray"
        /\ input' = s
        /\ result' = DateTime_from_bytearray(s)
        /\ it' = <<>>
        /\ pc' = "idle"

\* get_time(ibytes)
GetTime ==
    /\ op = "init"
    /\ \E s \in TimeInputs :
        /\ op' = "get_time"
        /\ input' = s
        /\ result' = get_time(s)
        /\ it' = <<>>
        /\ pc' = "idle"

\* Time.from_bytearray(frame)
TimeFromBytearray ==
    /\ op = "init"
    /\ \E s \in TimeInputs :
        /\ op' = "Time.from_bytearray"
        /\ input' = s
        /\ result' = Time_from_bytearray(s)
        /\ it' = <<>>
        /\ pc' = "idle"

\* Time.from_hexstring(hex), hex being the hexadecimal string of the frame
TimeFromHexstring ==
    /\ op = "init"
    /\ \E s \in TimeInputs :
        /\ op' = "Time.from_hexstring"
        /\ input' = s
        /\ result' = Time_from_hexstring(hex_of(s))
        /\ it' = <<>>
        /\ pc' = "idle"

\* Time.from_integers(it), it being the list of the bytes of the frame
TimeFromIntegers ==
    /\ op = "init"
    /\ \E s \in TimeInputs :
        /\ op' = "Time.from_integers"
        /\ input' = s
        /\ result' = Time_from_integers(s)
        /\ it' = <<>>
        /\ pc' = "idle"

\* get_vif_code(VIF(byte))
GetVifCode ==
    /\ op = "init"
    /\ \E b \in ByteInputs :
        LET vif == ValueInformationField(b)
        IN  /\ op' = "get_vif_code"
            /\ input' = <<b>>
            /\ IF vif.status # "ok"
               THEN result' = [status |-> vif.status]
               ELSE result' \in get_vif_code(vif)
            /\ it' = <<>>
            /\ pc' = "idle"

\* get_vif_code(DIF(byte)): the argument is not a VIF
GetVifCodeOfDIF ==
    /\ op = "init"
    /\ \E b \in {0, 40, 169} :
        /\ op' = "get_vif_code(DIF)"
        /\ input' = <<b>>
        /\ result' \in get_vif_code(DataInformationField(b))
        /\ it' = <<>>
        /\ pc' = "idle"

\* OnTimeVIFCode(VIF(byte)), the class that VIF_CODE_TYPES leaves out
BuildOnTimeVIFCode ==
    /\ op = "init"
    /\ \E b \in 0..255 :
        /\ op' = "OnTimeVIFCode"
        /\ input' = <<b>>
        /\ result' = OnTimeVIFCode(ValueInformationField(b))
        /\ it' = <<>>
        /\ pc' = "idle"

\* validate_byte(nbr)
ValidateByte ==
    /\ op = "init"
    /\ \E b \in ByteInputs :
        /\ op' = "validate_byte"
        /\ input' = <<b>>
        /\ result' = validate_byte(b)
        /\ it' = <<>>
        /\ pc' = "idle"

\* TelegramField(byte)
BuildTelegramField ==
    /\ op = "init"
    /\ \E b \in ByteInputs :
        /\ op' = "TelegramField"
        /\ input' = <<b>>
        /\ result' = TelegramField(b)
        /\ it' = <<>>
        /\ pc' = "idle"

\* DataInformationField(byte) of telegrams/fields/data_info.py
BuildDataInformationField ==
    /\ op = "init"
    /\ \E b \in ByteInputs :
        /\ op' = "DataInformationField"
        /\ input' = <<b>>
        /\ result' = DataInformationField(b)
        /\ it' = <<>>
        /\ pc' = "idle"

\* DataInformationFieldExtension(byte) of telegrams/fields/data_info.py
BuildDataInformationFieldExtension ==
    /\ op = "init"
    /\ \E b \in ByteInputs :
        /\ op' = "DataInformationFieldExtension"
        /\ input' = <<b>>
        /\ result' = DataInformationFieldExtension(b)
        /\ it' = <<>>
        /\ pc' = "idle"

\* AddressField(byte)
BuildAddressField ==
    /\ op = "init"
    /\ \E b \in ByteInputs :
        /\ op' = "AddressField"
        /\ input' = <<b>>
        /\ result' = AddressField(b)
        /\ it' = <<>>
        /\ pc' = "idle"

\* ControlField(byte)
BuildControlField ==
    /\ op = "init"
    /\ \E b \in ByteInputs :
        /\ op' = "ControlField"
        /\ input' = <<b>>
        /\ result' = ControlField(b)
        /\ it' = <<>>
        /\ pc' = "idle"

\* DataInformationField(byte) and DataInformationField(byte, check_byte=True)
\* of blocks/dib.py
BuildBlocksDataInformationField ==
    /\ op = "init"
    /\ \E b \in ByteInputs, check_byte \in BOOLEAN :
        /\ op' = IF check_byte
                 THEN "blocks.DataInformationField(check_byte=True)"
                 ELSE "blocks.DataInformationField"
        /\ input' = <<b>>
        /\ result' = blocks_DataInformationField(b, check_byte)
        /\ it' = <<>>
        /\ pc' = "idle"

\* DataInformationFieldExtension(byte) and (byte, check_byte=True) of
\* blocks/dib.py
BuildBlocksDataInformationFieldExtension ==
    /\ op = "init"
    /\ \E b \in ByteInputs, check_byte \in BOOLEAN :
        /\ op' = IF check_byte
                 THEN "blocks.DataInformationFieldExtension(check_byte=True)"
                 ELSE "blocks.DataInformationFieldExtension"
        /\ input' = <<b>>
        /\ result' = blocks_DataInformationFieldExtension(b, check_byte)
        /\ it' = <<>>
        /\ pc' = "idle"

\* SingleFrame.from_byte(byte)
SingleFrameFromByte ==
    /\ op = "init"
    /\ \E b \in ByteInputs :
        /\ op' = "SingleFrame.from_byte"
        /\ input' = <<b>>
        /\ result' = SingleFrame_from_byte(b)
        /\ it' = <<>>
        /\ pc' = "idle"

\* AddressField(byte), then each of its seven methods is called
ClassifyAddressField ==
    /\ op = "init"
    /\ \E b \in ByteInputs :
        LET self == AddressField(b)
        IN  /\ op' = "AddressField.methods"
            /\ input' = <<b>>
            /\ result' = IF self.status # "ok" THEN self
                         ELSE AddressField_methods(self)
            /\ it' = <<>>
            /\ pc' = "idle"

\* parse_boolean(ibytes)
ParseBoolean ==
    /\ op = "init"
    /\ \E s \in UnsignedInputs :
        /\ op' = "parse_boolean"
        /\ input' = s
        /\ result' = parse_boolean(s)
        /\ it' = <<>>
        /\ pc' = "idle"

\* c_get_mbus_metering(hex) of the test with the time point
GetMbusMeteringTimePoint ==
    /\ op = "init"
    /\ \E s \in TimePointInputs :
        /\ op' = "c_get_mbus_metering(time point)"
        /\ input' = s
        /\ result' = c_get_mbus_metering_time_point(s)
        /\ it' = <<>>
        /\ pc' = "idle"

\* c_get_mbus_metering(hex) up to _parse_first_byte(next(it)): the iterator
\* is made and its first byte gives the medium and the type of the metering
RecordStart ==
    /\ op = "init"
    /\ \E s \in RecordInputs :
        /\ op' = "c_get_mbus_metering"
        /\ input' = s
        /\ IF Len(s) = 0
           THEN /\ it' = <<>>
                /\ pc' = "failed"
                /\ result' = [status |-> "StopIteration"]
           ELSE /\ it' = Tail(s)
                /\ pc' = "start"
                /\ result' = [status |-> "running",
                              medium |-> BitAnd(s[1], 15),
                              type |-> IF ShiftR(BitAnd(s[1], 240), 4) = 2
                                       THEN "simple" ELSE "other"]

\* dib = DIB(it); res |= _parse_dib(dib): the block is parsed from the shared
\* iterator; an exception leaves the function and no res is returned
RecordDIB ==
    /\ pc = "start"
    /\ LET r == DataInformationBlock(it)
       IN  /\ it' = Rest(it, r.consumed)
           /\ IF r.status = "ok"
              THEN /\ pc' = "dib"
                   /\ result' = [status |-> "running",
                                 medium |-> result.medium,
                                 type |-> result.type,
                                 dib |-> r.blocks]
              ELSE /\ pc' = "failed"
                   /\ result' = [status |-> r.status]
    /\ UNCHANGED <<op, input>>

\* c_get_mbus_metering that returns what it has when VIB(it) fails
RecordVIB_ReturnsPartial ==
    /\ pc = "dib"
    /\ LET r == ValueInformationBlock(it)
       IN  /\ it' = Rest(it, r.consumed)
           /\ IF r.status = "ok"
              THEN /\ pc' = "vib"
                   /\ result' = [status |-> "running",
                                 medium |-> result.medium,
                                 type |-> result.type,
                                 dib |-> result.dib,
                                 vib |-> r.blocks,
                                 unit_kind |-> "None",
                                 unit_multiplier |-> NoRange]
              ELSE /\ pc' = "done"
                   /\ result' = [status |-> "ok",
                                 medium |-> result.medium,
                                 type |-> result.type,
                                 dib |-> result.dib]
    /\ UNCHANGED <<op, input>>

\* vib = VIB(it); res |= _parse_vib(vib): the block is parsed, then
\* get_vif_code(vib.vif) gives the kind and the multiplier of the unit
RecordVIB ==
    /\ pc = "dib"
    /\ LET r == ValueInformationBlock(it)
       IN  /\ it' = Rest(it, r.consumed)
           /\ IF r.status = "ok"
              THEN /\ pc' = "vib"
                   /\ \E vif_code \in get_vif_code(r.blocks[1]) :
                        result' = [status |-> "running",
                                   medium |-> result.medium,
                                   type |-> result.type,
                                   dib |-> result.dib,
                                   vib |-> r.blocks,
                                   unit_kind |-> vif_code.type,
                                   unit_multiplier |->
                                       IF vif_code.type = "None" THEN NoRange
                                       ELSE vif_code.multiplier]
              ELSE /\ pc' = "failed"
                   /\ result' = [status |-> r.status]
    /\ UNCHANGED <<op, input>>

\* c_get_mbus_metering that takes as many bytes as the DIF of int32 says
RecordData_FourBytes ==
    /\ pc = "vib"
    /\ it' = Rest(it, 4)
    /\ pc' = "done"
    /\ result' = [status |-> "ok",
                  medium |-> result.medium,
                  type |-> result.type,
                  dib |-> result.dib,
                  vib |-> result.vib,
                  unit_kind |-> result.unit_kind,
                  unit_multiplier |-> result.unit_multiplier,
                  data |-> SubSeq(it, 1, IF Len(it) < 4 THEN Len(it) ELSE 4)]
    /\ UNCHANGED <<op, input>>

\* res["data"] = list(it); return res
RecordData ==
    /\ pc = "vib"
    /\ it' = <<>>
    /\ pc' = "done"
    /\ result' = [status |-> "ok",
                  medium |-> result.medium,
                  type |-> result.type,
                  dib |-> result.dib,
                  vib |-> result.vib,
                  unit_kind |-> result.unit_kind,
                  unit_multiplier |-> result.unit_multiplier,
                  data |-> it]
    /\ UNCHANGED <<op, input>>

Next ==
    \/ BuildDIB
    \/ BuildVIB
    \/ BuildShortFrame
    \/ ParseBinaryInteger
    \/ ParseUnsignedInteger
    \/ GetDate
    \/ DateFromBytearray
    \/ GetDateTime
    \/ DateTimeFromBytearray
    \/ GetTime
    \/ TimeFromBytearray
    \/ TimeFromHexstring
    \/ TimeFromIntegers
    \/ GetVifCode
    \/ GetVifCodeOfDIF
    \/ BuildOnTimeVIFCode
    \/ ValidateByte
    \/ BuildTelegramField
    \/ BuildDataInformationField
    \/ BuildDataInformationFieldExtension
    \/ BuildAddressField
    \/ BuildControlField
    \/ BuildBlocksDataInformationField
    \/ BuildBlocksDataInformationFieldExtension
    \/ SingleFrameFromByte
    \/ ClassifyAddressField
    \/ GetMbusMeteringTimePoint
    \/ ParseBoolean
    \/ RecordStart
    \/ RecordDIB
    \/ RecordVIB
    \/ RecordData

Spec == Init /\ [][Next]_vars

(***************************************************************************)
(* Properties                                                              *)
(***************************************************************************)
\* the call op was made and returned a value
Succeeded(name) == op = name /\ result.status = "ok"

\* the first n items of s all have bit 7 set
AllExtended(s, n) == \A j \in 1..n : s[j] >= 128 /\ s[j] < 256

\* C1: whenever DataInformationBlock is built, it holds 1 + k fields with
\* k <= 10, every field but the last has the extension bit set and the last
\* field has the extension bit clear.
C1_ChainInvariant ==
    Succeeded("DIB") =>
        LET blocks == result.blocks
            n == Len(blocks)
        IN  /\ n >= 1
            /\ n <= 1 + MAX_DIFE_FRAMES
            /\ \A j \in 1..(n - 1) : blocks[j].extension = 1
            /\ blocks[n].extension = 0

\* the bytes of a list of fields
FieldBytes(blocks) == [j \in 1..Len(blocks) |-> blocks[j].byte]

\* C2: whenever a DIB or a VIB is built from an iterator, the number of bytes
\* taken from the iterator is the number of fields of the block, the fields
\* carry the taken bytes in order, and the iterator is left at the byte that
\* follows the block's last field; in a record the VIB starts right after
\* the last DIB field, the payload right after the last VIB field, and no
\* byte of the input is dropped.
C2_ConsumedEqualsFields ==
    /\ (Succeeded("DIB") \/ Succeeded("VIB")) =>
          LET blocks == result.blocks
              n == Len(blocks)
          IN  /\ result.consumed = n
              /\ n <= Len(input)
              /\ FieldBytes(blocks) = SubSeq(input, 1, n)
              /\ it = SubSeq(input, n + 1, Len(input))
    /\ pc = "dib" =>
          <<input[1]>> \o FieldBytes(result.dib) \o it = input
    /\ pc = "vib" =>
          <<input[1]>> \o FieldBytes(result.dib) \o FieldBytes(result.vib) \o it
              = input
    /\ pc = "done" =>
          <<input[1]>> \o FieldBytes(result.dib) \o FieldBytes(result.vib)
              \o result.data = input

\* C3: a DIF and ten DIFEs that all carry the extension bit make the
\* construction of the DIB fail with MBusDecodeError.
C3_ChainTooLongIsDecodeError ==
    (op = "DIB" /\ Len(input) >= 11 /\ AllExtended(input, 11)) =>
        result.status = "MBusDecodeError"

\* the input ends while the last byte taken still asks for an extension
EndsMidChain(s) == Len(s) <= 10 /\ AllExtended(s, Len(s))

\* C4: an empty input, or one that ends while the last field taken has the
\* extension bit set, makes the construction of a DIB or a VIB fail with
\* MBusDecodeError.
C4_UnexpectedEndIsDecodeError ==
    (op \in {"DIB", "VIB"} /\ EndsMidChain(input)) =>
        result.status = "MBusDecodeError"

\* the parts of a short frame that decide whether it is accepted
StartOk(s) == Len(s) >= 1 /\ s[1] = 16
StopOk(s) == Len(s) >= 5 /\ s[5] = 22
ChecksumOk(s) == Len(s) >= 4 /\ s[4] = (s[2] + s[3]) % 256

\* C5 as stated: ShortFrame is accepted exactly when the start byte is 0x10,
\* the stop byte is 0x16 and the checksum byte equals (C + A) mod 256; every
\* rejection is an MBusDecodeError.
C5_AcceptedIffChecksum ==
    op = "ShortFrame" =>
        /\ result.status = "ok" <=>
               (StartOk(input) /\ StopOk(input) /\ ChecksumOk(input))
        /\ result.status \in {"ok", "MBusDecodeError"}

\* C5 as amended: ShortFrame is accepted exactly when the start byte is 0x10
\* and the stop byte (the fifth byte) is 0x16; every rejection is an
\* MBusDecodeError; the checksum byte is stored as given, never compared
\* with (C + A) mod 256.
C5_AcceptedIffStartStop ==
    op = "ShortFrame" =>
        /\ result.status = "ok" <=> (StartOk(input) /\ StopOk(input))
        /\ result.status \in {"ok", "MBusDecodeError"}
        /\ result.status = "ok" => result.frame[4] = input[4]

\* a frame with a wrong checksum was accepted
C5_Witness ==
    /\ Succeeded("ShortFrame")
    /\ Len(input) = 5
    /\ ~ChecksumOk(input)

RECURSIVE Pow256(_)
Pow256(n) == IF n = 0 THEN 1 ELSE 256 * Pow256(n - 1)

\* the unsigned value of s with the first byte least significant
RECURSIVE LittleEndian(_)
LittleEndian(s) ==
    IF Len(s) = 0 THEN 0
    ELSE s[1] + 256 * LittleEndian(Tail(s))

\* the unsigned value of s with the first byte most significant
RECURSIVE BigEndian(_)
BigEndian(s) ==
    IF Len(s) = 0 THEN 0
    ELSE s[1] * Pow256(Len(s) - 1) + BigEndian(Tail(s))

\* the two's-complement value of s, first byte least significant, bit 7 of
\* the last byte the sign
TwosComplement(s) ==
    LET w == Len(s)
        top == IF s[w] >= 128 THEN s[w] - 256 ELSE s[w]
    IN  LittleEndian(SubSeq(s, 1, w - 1)) + top * Pow256(w - 1)

\* v as w bytes of little-endian two's complement
Encode(v, w) == [j \in 1..w |-> (v \div Pow256(j - 1)) % 256]

C8_UnsignedLittleEndian ==
    (op = "parse_unsigned_integer" /\ Len(input) >= 1) =>
        /\ result.status = "ok"
        /\ result.value = LittleEndian(input)

\* C8 as amended: parse_unsigned_integer returns the big-endian unsigned
\* value of its bytes (first byte most significant), the opposite of the
\* byte order of the signed decoder.
C8_UnsignedBigEndian ==
    (op = "parse_unsigned_integer" /\ Len(input) >= 1) =>
        /\ result.status = "ok"
        /\ result.value = BigEndian(input)
        /\ result.value >= 0
        /\ result.value = LittleEndian(Reversed(input))

\* 01 FF was decoded to 511
C8_Witness ==
    /\ Succeeded("parse_unsigned_integer")
    /\ input = <<1, 255>>
    /\ result.value = 511

\* the fields of a CP16 date by arithmetic on the two bytes
DayOf(b0) == b0 % 32
MonthOf(b1) == b1 % 16
YearOf(b0, b1) ==
    LET y == ((b1 - (b1 % 16)) + ((b0 - (b0 % 32)) \div 16)) \div 2
    IN  IF y < 81 THEN 2000 + y ELSE 1900 + y

\* month in 1..12 and day within the month
ValidCalendarDate(year, month, day) ==
    /\ month \in 1..12
    /\ day >= 1
    /\ day <= (IF month = 2
               THEN (IF year % 4 = 0 /\ (year % 100 # 0 \/ year % 400 = 0)
                     THEN 29 ELSE 28)
               ELSE IF month \in {4, 6, 9, 11} THEN 30 ELSE 31)

\* C9: for a 2-byte frame whose fields are a valid date, get_date and
\* Date.from_bytearray return day = b0 & 0x1F, month = b1 & 0x0F and the year
\* of the century rule.
C9_DateFields ==
    (op \in {"get_date", "Date.from_bytearray"} /\ Len(input) = 2) =>
        LET b0 == input[1]
            b1 == input[2]
        IN  ValidCalendarDate(YearOf(b0, b1), MonthOf(b1), DayOf(b0)) =>
                /\ result.status = "ok"
                /\ result.day = DayOf(b0)
                /\ result.month = MonthOf(b1)
                /\ result.year = YearOf(b0, b1)

\* 6A 28 was decoded to 2019-08-10
C9_Witness ==
    /\ Succeeded("get_date")
    /\ input = <<106, 40>>
    /\ result.year = 2019 /\ result.month = 8 /\ result.day = 10

C11_TimeFields ==
    (op \in {"get_time", "Time.from_bytearray"} /\ Len(input) \in {2, 3}) =>
        LET minute == input[1] % 64
            hour == input[2] % 32
            second == IF Len(input) = 3 THEN input[3] % 64 ELSE 0
        IN  (hour <= 23 /\ minute <= 59 /\ second <= 59) =>
                /\ result.status = "ok"
                /\ result.hour = hour
                /\ result.minute = minute
                /\ result.second = second

\* 1E 09 0F was decoded to 09:30:15
C11_Witness ==
    /\ Succeeded("get_time")
    /\ input = <<30, 9, 15>>
    /\ result.hour = 9 /\ result.minute = 30 /\ result.second = 15


\* the masked fields of the frame given to a date, time or date-time
\* operation are not a calendar value
InvalidCalendarFields ==
    \/ /\ op \in {"get_date", "Date.from_bytearray"}
       /\ Len(input) = 2
       /\ ~ValidCalendarDate(YearOf(input[1], input[2]), MonthOf(input[2]),
                             DayOf(input[1]))
    \/ /\ op \in {"get_time", "Time.from_bytearray"}
       /\ Len(input) \in {2, 3}
       /\ \/ input[1] % 64 > 59
          \/ input[2] % 32 > 23
          \/ Len(input) = 3 /\ input[3] % 64 > 59
    \/ /\ op \in {"get_datetime", "DateTime.from_bytearray"}
       /\ Len(input) \in {4, 5}
       /\ \/ input[1] % 64 > 59
          \/ input[2] % 32 > 23
          \/ Len(input) = 5 /\ input[5] % 64 > 59
          \/ ~ValidCalendarDate(YearOf(input[3], input[4]), MonthOf(input[4]),
                                DayOf(input[3]))

\* C12 (as stated): when the masked fields of a date, time or date-time
\* frame are not a valid calendar value, get_date / get_time / get_datetime
\* and the byte constructors of Date / Time / DateTime fail with
\* MBusDecodeError.
C12_InvalidIsDecodeError ==
    InvalidCalendarFields => result.status = "MBusDecodeError"

\* C12 (amended): when the masked fields are not a valid calendar value the
\* six operations fail with the ValueError of Python's date, time and
\* datetime, and return no value.
C12_InvalidIsValueError ==
    InvalidCalendarFields => result = [status |-> "ValueError"]

\* a frame of 30 February was refused by Date.from_bytearray
C12_Witness ==
    /\ op = "Date.from_bytearray"
    /\ Len(input) = 2
    /\ DayOf(input[1]) = 30 /\ MonthOf(input[2]) = 2
    /\ result.status = "ValueError"


\* the CP16 frame of a date: the day in bits 0..4 of the first byte, the
\* month in bits 0..3 of the second, and the year of the century in the
\* seven bits left (its three low bits in the first byte)
EncodeDate(year, month, day) ==
    LET y == year % 100
    IN  <<day + 32 * (y % 8), month + 16 * (y \div 8)>>

\* get_date returned the date year-month-day
Decoded(year, month, day) ==
    /\ result.status = "ok"
    /\ result.year = year
    /\ result.month = month
    /\ result.day = day

\* C13 (as stated): every valid Date with a year in 1900..2099, encoded in
\* the CP16 layout and decoded with get_date, is returned unchanged.
C13_RoundTripAllYears ==
    (op = "get_date" /\ Len(input) = 2) =>
        \A year \in 1900..2099 :
            LET month == MonthOf(input[2])
                day == DayOf(input[1])
            IN  (ValidCalendarDate(year, month, day)
                    /\ input = EncodeDate(year, month, day)) =>
                        Decoded(year, month, day)

\* C13 (amended): every valid Date with a year in 1981..2080, encoded in
\* the CP16 layout and decoded with get_date, is returned unchanged; and
\* get_date returns no date with a year outside 1981..2080.
C13_RoundTrip ==
    (op = "get_date" /\ Len(input) = 2) =>
        /\ \A year \in 1981..2080 :
            LET month == MonthOf(input[2])
                day == DayOf(input[1])
            IN  (ValidCalendarDate(year, month, day)
                    /\ input = EncodeDate(year, month, day)) =>
                        Decoded(year, month, day)
        /\ result.status = "ok" => result.year \in 1981..2080

\* the frame of 2080-12-31 was decoded to 2080-12-31
C13_Witness ==
    /\ op = "get_date"
    /\ input = EncodeDate(2080, 12, 31)
    /\ Decoded(2080, 12, 31)


\* C14: for every byte sequence of length 2 to 5 on which they succeed,
\* Time.from_bytearray, Time.from_hexstring and Time.from_integers return
\* equal Time values.
C14_TimeConstructorsAgree ==
    (/\ op \in {"Time.from_hexstring", "Time.from_integers"}
     /\ Len(input) \in 2..5
     /\ result.status = "ok"
     /\ Time_from_bytearray(input).status = "ok") =>
        result = Time_from_bytearray(input)


RECURSIVE Ten(_)
\* 10^n for n >= 0
Ten(n) == IF n = 0 THEN 1 ELSE 10 * Ten(n - 1)

\* the fraction mult is 10^k
IsTenTo(mult, k) ==
    /\ DOMAIN mult = {"num", "den"}
    /\ mult.den > 0
    /\ mult.num * Ten(IF k < 0 THEN 0 - k ELSE 0)
         = mult.den * Ten(IF k > 0 THEN k ELSE 0)

\* get_vif_code was called with VIF(b), b a byte
VifCodeOfByte == op = "get_vif_code" /\ input[1] \in 0..255

\* C15: for a VIF byte whose low 7 bits are 0b0000eee (energy, Wh),
\* 0b0001eee (energy, J), 0b0010eee (volume), 0b0011eee (mass) or 0b0101eee
\* (power), get_vif_code returns the code of the family with the multiplier
\* 10^(e-3), 10^e, 10^(e-6), 10^(e-3), 10^(e-3), whatever bit 7 is.
C15_FamilyAndMultiplier ==
    VifCodeOfByte =>
        LET family == (input[1] % 128) \div 8
            e == input[1] % 8
        IN  /\ family = 0 =>
                /\ result.status = "ok"
                /\ result.type = "EnergyWattHourVIFCode"
                /\ IsTenTo(result.multiplier, e - 3)
            /\ family = 1 =>
                /\ result.status = "ok"
                /\ result.type = "EnergyJouleVIFCode"
                /\ IsTenTo(result.multiplier, e)
            /\ family = 2 =>
                /\ result.status = "ok"
                /\ result.type = "VolumeMeterCubeVIFCode"
                /\ IsTenTo(result.multiplier, e - 6)
            /\ family = 3 =>
                /\ result.status = "ok"
                /\ result.type = "VolumeMassKilogramVIFCode"
                /\ IsTenTo(result.multiplier, e - 3)
            /\ family = 5 =>
                /\ result.status = "ok"
                /\ result.type = "PowerWattVIFCode"
                /\ IsTenTo(result.multiplier, e - 3)

\* VIF 0xA9, with the extension bit, gave power with the multiplier 1/100
C15_Witness ==
    /\ Succeeded("get_vif_code")
    /\ input = <<169>>
    /\ result.type = "PowerWattVIFCode"
    /\ result.multiplier = [num |-> 1, den |-> 100]

\* C16: for a VIF byte whose low 7 bits are 0b01000ee (on-time) or
\* 0b01001ee (operating-time) the decoder returns the on-time (operating-
\* time) row, with the unit second, minute, hour, day for e = 0, 1, 2, 3.
C16_TimeRowsAndUnits ==
    VifCodeOfByte =>
        LET row == (input[1] % 128) \div 4
            e == input[1] % 4
            unit == <<"second", "minute", "hour", "day">>[e + 1]
        IN  /\ row = 8 =>
                /\ result.status = "ok"
                /\ result.type = "OnTimeVIFCode"
                /\ result.UNIT = unit
            /\ row = 9 =>
                /\ result.status = "ok"
                /\ result.type = "OperatingTimeVIFCode"
                /\ result.UNIT = unit

\* the low 7 bits of the byte are in no row of the primary table
NoRowMatches ==
    /\ (input[1] % 128) \div 8 \notin {0, 1, 2, 3, 5}
    /\ (input[1] % 128) \div 4 \notin {8, 9}

\* C17: get_vif_code fails for no VIF byte of 0..255, and returns None when
\* the low 7 bits match no row of the primary table.
C17_NeverFails ==
    VifCodeOfByte =>
        /\ result.status = "ok"
        /\ NoRowMatches => result.type = "None"

\* VIF 0x6D, which is in no row, gave None
C17_Witness ==
    /\ Succeeded("get_vif_code")
    /\ input = <<109>>
    /\ result.type = "None"


\* four sub-fields of the widths 4, 2, 1, 1 that put together give b
Reassembles(low, mid, bit6, bit7, b) ==
    /\ low \in 0..15 /\ mid \in 0..3 /\ bit6 \in 0..1 /\ bit7 \in 0..1
    /\ low + 16 * mid + 64 * bit6 + 128 * bit7 = b

\* C18: for every byte b of 0..255, DIF(b) and DIFE(b) are constructed
\* without error and their sub-fields reassemble the byte:
\* data | (function << 4) | (storage_number_lsb << 6) | (extension << 7) = b
\* and storage_number | (tariff << 4) | (device_unit << 6)
\* | (extension << 7) = b.
C18_SubFieldsReassemble ==
    (Len(input) = 1 /\ input[1] \in 0..255) =>
        /\ op = "DataInformationField" =>
            /\ result.status = "ok"
            /\ Reassembles(result.data, result.function,
                           result.storage_number_lsb, result.extension,
                           input[1])
        /\ op = "DataInformationFieldExtension" =>
            /\ result.status = "ok"
            /\ Reassembles(result.storage_number, result.tariff,
                           result.device_unit, result.extension, input[1])
        /\ op \in {"blocks.DataInformationField",
                   "blocks.DataInformationField(check_byte=True)"} =>
            /\ result.status = "ok"
            /\ Reassembles(result.data_field, result.function_field,
                           result.storage_number_lsb, result.extension_bit,
                           input[1])
        /\ op \in {"blocks.DataInformationFieldExtension",
                   "blocks.DataInformationFieldExtension(check_byte=True)"} =>
            /\ result.status = "ok"
            /\ Reassembles(result.storage_number, result.tariff,
                           result.device_unit, result.extension_bit,
                           input[1])

\* DIFE(0b1101_1111) has storage number 15, tariff 1, device unit 1 and the
\* extension bit
C18_Witness ==
    /\ Succeeded("DataInformationFieldExtension")
    /\ input = <<223>>
    /\ result.storage_number = 15 /\ result.tariff = 1
    /\ result.device_unit = 1 /\ result.extension = 1

\* C19: every constructor that takes an integer as a byte (TelegramField,
\* DataInformationField, DataInformationFieldExtension, AddressField,
\* ControlField) rejects every integer outside 0..255 with
\* MBusValidationError.
C19_OutOfRangeRejected ==
    (/\ op \in {"TelegramField", "DataInformationField",
                "DataInformationFieldExtension", "AddressField",
                "ControlField", "blocks.DataInformationField",
                "blocks.DataInformationFieldExtension"}
     /\ input[1] \notin 0..255) =>
        result = [status |-> "MBusValidationError"]

\* C20: validate_byte(n) returns n for every n of 0..255 and raises
\* MBusValidationError for every n < 0 and every n > 255.
C20_ValidateByte ==
    op = "validate_byte" =>
        LET n == input[1]
        IN  /\ (n >= 0 /\ n <= 255) =>
                result = [status |-> "ok", value |-> n]
            /\ (n < 0 \/ n > 255) =>
                result = [status |-> "MBusValidationError"]

\* validate_byte(256) was refused
C20_Witness ==
    /\ op = "validate_byte"
    /\ input = <<256>>
    /\ result.status = "MBusValidationError"


\* C21: SingleFrame.from_byte(b) returns an ACK frame if and only if
\* b = 0xE5; every other byte is rejected with MBusDecodeError.
C21_AckIffE5 ==
    op = "SingleFrame.from_byte" =>
        /\ input[1] = 229 =>
            /\ result.status = "ok"
            /\ Len(result.frame) = 1
            /\ result.frame[1].byte = 229
        /\ input[1] # 229 => result = [status |-> "MBusDecodeError"]

\* the byte 0xE4, next to the ACK byte, was refused
C21_Witness ==
    /\ op = "SingleFrame.from_byte"
    /\ input = <<228>>
    /\ result.status = "MBusDecodeError"


\* the number of the five classes of addresses that hold of the result
ClassesTrue ==
    Cardinality({c \in {"is_unconfigured_slave", "is_configured_slave",
                        "is_network_layer", "is_broadcast_all_reply",
                        "is_broadcast_no_replies"} : result[c]})

\* C22: for every byte of 0..255 at most one of is_unconfigured_slave
\* (0x00), is_configured_slave (0x01..0xFA), is_network_layer (0xFD),
\* is_broadcast_all_reply (0xFE), is_broadcast_no_replies (0xFF) is true,
\* none is true exactly for 0xFB and 0xFC, is_slave is unconfigured or
\* configured, and is_broadcast is all-reply or no-replies.
C22_Classification ==
    (op = "AddressField.methods" /\ input[1] \in 0..255) =>
        LET a == input[1]
        IN  /\ result.status = "ok"
            /\ result.is_unconfigured_slave = (a = 0)
            /\ result.is_configured_slave = (a >= 1 /\ a <= 250)
            /\ result.is_network_layer = (a = 253)
            /\ result.is_broadcast_all_reply = (a = 254)
            /\ result.is_broadcast_no_replies = (a = 255)
            /\ ClassesTrue <= 1
            /\ (ClassesTrue = 0) = (a \in {251, 252})
            /\ result.is_slave =
                (result.is_unconfigured_slave \/ result.is_configured_slave)
            /\ result.is_broadcast =
                (result.is_broadcast_all_reply
                    \/ result.is_broadcast_no_replies)

\* the reserved address 0xFB was classified, and is in no class
C22_Witness ==
    /\ Succeeded("AddressField.methods")
    /\ input = <<251>>
    /\ ClassesTrue = 0
    /\ ~result.is_slave /\ ~result.is_broadcast


\* t is what is left of s after some of its first items were taken
IsSuffix(t, s) ==
    /\ Len(t) <= Len(s)
    /\ t = SubSeq(s, Len(s) - Len(t) + 1, Len(s))

\* the steps of the assembly of a record, by the stage before and after
StageOrder ==
    {<<"idle", "start">>, <<"idle", "failed">>,
     <<"start", "dib">>, <<"start", "failed">>,
     <<"dib", "vib">>, <<"dib", "failed">>,
     <<"vib", "done">>}

\* C23: the assembly of a record runs its stages in the order start, DIB,
\* VIB, payload, done over one shared iterator; a failure in a stage is
\* terminal, the error goes to the caller and no partial record is
\* returned.
C23_StagesInOrder ==
    [][op' = "c_get_mbus_metering" =>
        /\ <<pc, pc'>> \in StageOrder
        /\ IsSuffix(it', IF pc = "idle" THEN input' ELSE it)
        /\ input' = (IF pc = "idle" THEN input' ELSE input)
        /\ pc' = "failed" =>
            /\ DOMAIN result' = {"status"}
            /\ result'.status \notin {"ok", "running", "none"}
        /\ (result'.status = "ok") = (pc' = "done")
        /\ pc' = "done" =>
            {"medium", "type", "dib", "vib", "data"} \subseteq DOMAIN result'
      ]_vars

\* the record 22 04 failed in the stage of the VIB, after its DIB was
\* parsed, and nothing of the DIB is in the result
C23_Witness ==
    /\ op = "c_get_mbus_metering"
    /\ pc = "failed"
    /\ input = <<34, 4>>
    /\ result = [status |-> "MBusError"]

\* C24 (as stated): the number of payload bytes taken for a record is given
\* by the data-field code of the DIF alone: 2 bytes for int16 (code 2) and
\* 4 bytes for int32 (code 4), however many bytes follow the VIB.
C24_PayloadLengthByDIF ==
    (op = "c_get_mbus_metering" /\ pc = "done") =>
        LET following == Len(result.data) + Len(it)
        IN  /\ (result.dib[1].data = 2 /\ following >= 2) =>
                Len(result.data) = 2
            /\ (result.dib[1].data = 4 /\ following >= 4) =>
                Len(result.data) = 4

\* C24 (amended): the payload of a record is every byte that follows the
\* VIB in the input, up to its end, whatever the data-field code of the
\* DIF is.
C24_PayloadIsTheRest ==
    (op = "c_get_mbus_metering" /\ pc = "done") =>
        LET after_first == Tail(input)
            dib == DataInformationBlock(after_first)
            after_dib == Rest(after_first, dib.consumed)
            vib == ValueInformationBlock(after_dib)
        IN  /\ result.data = Rest(after_dib, vib.consumed)
            /\ IsSuffix(result.data, input)
            /\ it = <<>>

\* the record 22 84 04 A9 FF 81 80 6D with eight more bytes, whose DIF is
\* of int32, was returned with a payload of eight bytes
C24_Witness ==
    /\ op = "c_get_mbus_metering" /\ pc = "done"
    /\ input = <<34, 132, 4, 169, 255, 129, 128, 109,
                 0, 0, 31, 64, 30, 10, 106, 40>>
    /\ result.dib[1].data = 4
    /\ result.data = <<0, 0, 31, 64, 30, 10, 106, 40>>


\* C25: the last VIFE v of the VIB of a record selects the date/time
\* interpretation exactly when v & 0b0110_1100 = 0b0110_1100, DateTime when
\* bit 0 of v is 1 and Date when it is 0; a record whose last VIFE does not
\* match (or that has no VIFE) still decodes; and the record
\* 04 A9 FF 81 80 6D 1E 0A 6A 28 gives DateTime(2019, 8, 10, 10, 30, 0).
C25_SelectorPolicy ==
    (op = "c_get_mbus_metering(time point)" /\ Len(input) >= 1) =>
        LET dib == DataInformationBlock(Tail(input))
            after_dib == Rest(Tail(input), dib.consumed)
            vib == ValueInformationBlock(after_dib)
            n == Len(vib.blocks)
            v == vib.blocks[n].byte
            selects == n >= 2 /\ (v \div 4) % 4 = 3 /\ (v \div 32) % 4 = 3
        IN  (dib.status = "ok" /\ vib.status = "ok") =>
                /\ (selects /\ result.status = "ok") =>
                    result.cls = (IF v % 2 = 1 THEN "DateTime" ELSE "Date")
                /\ ~selects => result.status = "ok"
                /\ input = <<34, 4, 169, 255, 129, 128, 109, 30, 10, 106, 40>>
                    => /\ result.status = "ok"
                       /\ result.dto = [status |-> "ok", year |-> 2019,
                                        month |-> 8, day |-> 10, hour |-> 10,
                                        minute |-> 30, second |-> 0]


\* C26: a DIB built from a DIF with the extension bit set, nine DIFEs with
\* the extension bit set and a tenth DIFE with the extension bit clear is
\* accepted and has exactly eleven fields, which carry the eleven input
\* bytes in order.
C26_TenthDifeAccepted ==
    (/\ op = "DIB"
     /\ Len(input) >= 11
     /\ \A j \in 1..10 : input[j] \in 128..255
     /\ input[11] \in 0..127) =>
        /\ result.status = "ok"
        /\ Len(result.blocks) = 11
        /\ FieldBytes(result.blocks) = SubSeq(input, 1, 11)


\* the two outcomes fail together or succeed together with the same bytes
\* in the fields and the same number of bytes taken
SameOutcome(d, v) ==
    /\ (d.status = "ok") <=> (v.status = "ok")
    /\ d.status = "ok" =>
          /\ FieldBytes(d.blocks) = FieldBytes(v.blocks)
          /\ d.consumed = v.consumed

\* C27: for every byte sequence s, DataInformationBlock(s) and
\* ValueInformationBlock(s) both fail or both succeed, and on success their
\* field lists carry the same bytes and the same number of bytes is consumed.
C27_DibVibAgree ==
    /\ op = "DIB" =>
          /\ SameOutcome(result, ValueInformationBlock(input))
          /\ result.status = "ok" =>
                it = Rest(input, ValueInformationBlock(input).consumed)
    /\ op = "VIB" =>
          /\ SameOutcome(DataInformationBlock(input), result)
          /\ result.status = "ok" =>
                it = Rest(input, DataInformationBlock(input).consumed)

\* a VIB of eleven fields followed by one more byte, where the DIB of the
\* same bytes is built too
C27_Witness ==
    /\ op = "VIB"
    /\ input = Repeat(128, 10) \o <<9, 137>>
    /\ result.status = "ok"
    /\ Len(result.blocks) = 11
    /\ it = <<137>>
    /\ DataInformationBlock(input).status = "ok"


\* the classes of VIF_CODE_TYPES that are constructed from the VIF of the
\* input byte without an exception
AcceptingClasses ==
    {code_type \in VIF_CODE_TYPES :
        code_type_call(code_type, ValueInformationField(input[1])).status
            = "ok"}

\* C28: the rows of the primary VIF table are pairwise disjoint: for every
\* byte at most one class of VIF_CODE_TYPES accepts it, so the result of
\* get_vif_code does not depend on the order of the iteration.
C28_RowsDisjoint ==
    VifCodeOfByte =>
        /\ Cardinality(AcceptingClasses) <= 1
        /\ get_vif_code(ValueInformationField(input[1])) = {result}
        /\ \A code_type \in AcceptingClasses : result.type = code_type

\* VIF 0x2B is accepted by PowerWattVIFCode alone
C28_Witness ==
    /\ Succeeded("get_vif_code")
    /\ input = <<43>>
    /\ AcceptingClasses = {"PowerWattVIFCode"}
    /\ result.type = "PowerWattVIFCode"


\* C29: parse_binary_integer, parse_unsigned_integer and parse_boolean raise
\* MBusDecodeError on an empty byte sequence and return no value.
C29_EmptyIsDecodeError ==
    (/\ op \in {"parse_binary_integer", "parse_unsigned_integer",
                "parse_boolean"}
     /\ input = <<>>) =>
        result = [status |-> "MBusDecodeError"]


\* C30: parsing a DIB or a VIB always terminates and takes at most eleven
\* bytes from the shared iterator in every outcome; a twelfth byte is never
\* consumed.
C30_AtMostElevenBytes ==
    /\ op \in {"DIB", "VIB"} =>
          /\ result.status # "running"
          /\ result.consumed <= 11
          /\ it = Rest(input, result.consumed)
          /\ Len(input) >= 12 => Len(it) >= Len(input) - 11
    /\ (op = "c_get_mbus_metering" /\ pc = "dib") =>
          Len(input) - 1 - Len(it) <= 11

\* a DIB refused after eleven of twelve extension bytes: the twelfth is left
C30_Witness ==
    /\ op = "DIB"
    /\ input = Repeat(128, 12)
    /\ result.status = "MBusError"
    /\ result.consumed = 11
    /\ it = <<128>>

====
